---- MODULE Spec2Model ----
(***************************************************************************)
(* State-machine model of the vak_bot content pipeline: the orchestrator   *)
(* entry points of vak_bot/pipeline/orchestrator.py, the stage ledger      *)
(* (stage_run), the chat handlers of vak_bot/bot/handlers.py that write    *)
(* the Post row, and the publish collaborator of vak_bot/pipeline/poster.py*)
(*                                                                         *)
(* One Post is modelled.  Every worker run holds its own SQLAlchemy        *)
(* session; sessions are created with expire_on_commit=False               *)
(* (db/session.py:11), so a run keeps the attribute values it loaded at    *)
(* session.get() for its whole life, and a commit only UPDATEs the columns *)
(* whose value differs from what the session last loaded or wrote.  That   *)
(* is what "snap" and Flush model.                                         *)
(*                                                                         *)
(* Columns that no modelled decision reads are left out of the Post record *)
(* (captions' text, timestamps, posted_by, error_message, video_type,      *)
(* video_duration, start_frame_url, thumb_offset_ms): they are written     *)
(* together with a column that is modelled.                                *)
(*                                                                         *)
(* handlers.py imports process_video_post_task, reel_this_task and         *)
(* extend_video_task from workers/tasks.py, which routes them              *)
(* (celery_app.py 19-21) but does not define them; they are taken to call  *)
(* run_video_generation_pipeline, run_reel_this_conversion and             *)
(* run_video_extension the way the three tasks that are defined            *)
(* (tasks.py 24-40) call theirs.                                           *)
(*                                                                         *)
(* Spec starts where _process_ingestion ends (a DRAFT Post, its first task *)
(* queued) and has every handler and every entry point.  SpecPublish       *)
(* starts where a successful run_generation_pipeline ends (the state       *)
(* C9_Witness reaches under Spec) and has the handlers that start no new   *)
(* generation, and run_publish: it is where two publish runs meet.         *)
(*                                                                         *)
(* SpecAlbum is the album buffer of handlers.py (album_handler,            *)
(* _finalize_album) before any Post exists.  SpecGen applies the pure       *)
(* functions to their inputs: the two generator functions that loop over   *)
(* items (GeminiStyler.generate_variants and                               *)
(* VeoGenerator.generate_reel_variations) to every sequence of per-call    *)
(* outcomes up to MaxCalls, _resolve_saree_sources to the uploads and      *)
(* product photos of a Post, can_transition_post to every pair of          *)
(* statuses, and the polling loop of MetaGraphPoster.post_reel to every    *)
(* sequence of MaxPolls status answers.  SpecAlbumFair is SpecAlbum with   *)
(* weak fairness on the finalize tasks.                                    *)
(***************************************************************************)
EXTENDS Naturals, Integers, Sequences, FiniteSets, TLC

\* ---------------------------------------------------------------- bounds
MaxRuns == 2          \* tasks put on the queue in one behaviour
MaxWorkers == 2       \* runs that execute at the same time
MaxInputs == 2        \* messages and button presses of the operator in one behaviour
MaxSelect == 2        \* the options the operator picks from ("1" .. )
MaxGroups == 2        \* media_group_id values of the album messages
MaxEvents == 3        \* album messages received in one behaviour
MaxCalls == 3         \* items a generator function is asked for in one call
MaxUploads == 2       \* photo URLs uploaded with one Post
MaxPhotos == 3        \* photo rows of one catalog product
MaxPolls == 3         \* status polls post_reel makes before it gives up waiting

\* ------------------------------------------------------ program constants
VariationModifiers == 1   \* gemini_styler.py 443: modifiers[:1]
VideoVariations == 1      \* veo_generator.py 91: len(VIDEO_VARIATION_MODIFIERS)

VARIABLES
    post,       \* the posts row (db/models.py Post), as committed in the database
    variants,   \* the post_variants rows of the post
    videoJobs,  \* the video_jobs rows of the post
    jobRuns,    \* the job_runs rows of the post (the stage ledger)
    session,    \* TelegramSession.state of the operator's session
    runs,       \* the queued and the running orchestrator invocations
    external,   \* the social platform: media published, publish calls received
    hist,       \* history: has the operator approved what is under review
    returned,   \* what the last step returned to its caller, if it ended a run
    inputs,     \* messages and button presses the operator has sent so far
    albumCache,     \* ALBUM_CACHE (handlers.py 49): the buffer of each group id
    albumEvents,    \* the album messages of the burst and where their handler is
    finalizers,     \* the _finalize_album tasks created so far
    ingestions,     \* the _process_ingestion calls made by _finalize_album
    buffersCreated, \* history: buffers inserted into ALBUM_CACHE, per group id
    call,       \* a generator function under test and what each of its calls does
    result      \* what that function returned or raised

albumVars == <<albumCache, albumEvents, finalizers, ingestions, buffersCreated>>

genVars == <<call, result>>

vars == <<post, variants, videoJobs, jobRuns, session, runs, external, hist, returned, inputs,
          albumVars, genVars>>

RunIds == 1..MaxRuns

GroupIds == 1..MaxGroups

AlbumEventIds == 1..MaxEvents

\* handlers.py 538-548: a group id that ALBUM_CACHE does not hold
NoBuffer == [live |-> FALSE, photos |-> <<>>, text |-> 0, scheduled |-> FALSE]

\* An album message that has not arrived
NoEvent == [group |-> 0, caption |-> 0, pc |-> "none"]

NoCall == [fn |-> "none", outcomes |-> <<>>]

NoResult ==
    [raised |-> "none", value |-> <<>>, reasons |-> <<>>, attempted |-> 0, done |-> FALSE]

\* ------------------------------------------------------------ enums.py
PostStatus == {"draft", "processing", "review_ready", "approved", "posted",
               "failed", "cancelled"}

MediaType == {"single", "carousel", "reel"}

JobStatus == {"started", "succeeded", "failed"}

\* ---------------------------------------------- services/state_machine.py
AllowedPostTransitions(current) ==
    CASE current = "draft"        -> {"processing", "cancelled"}
      [] current = "processing"   -> {"review_ready", "failed", "cancelled"}
      [] current = "review_ready" -> {"approved", "processing", "cancelled"}
      [] current = "approved"     -> {"posted", "failed", "cancelled"}
      [] current = "posted"       -> {}
      [] current = "failed"       -> {"processing", "cancelled"}
      [] current = "cancelled"    -> {}
      [] OTHER                    -> {}

\* A table in which every pair is allowed; C26_PostTransitionTable fails on it.
can_transition_post_Mutant(current, target) == TRUE

can_transition_post(current, target) == target \in AllowedPostTransitions(current)

\* state_machine.py 15-25 (AWAITING_PHOTOS and AWAITING_VIDEO_SELECTION have no
\* entry)
AllowedSessionTransitions(current) ==
    CASE current = "idle" -> {"review_ready", "awaiting_caption_edit", "awaiting_approval"}
      [] current = "review_ready" -> {"awaiting_caption_edit", "awaiting_approval", "idle"}
      [] current = "awaiting_caption_edit" -> {"review_ready", "idle"}
      [] current = "awaiting_approval" ->
            {"awaiting_post_confirmation", "review_ready", "idle"}
      [] current = "awaiting_post_confirmation" -> {"idle", "review_ready"}
      [] OTHER -> {}

can_transition_session(current, target) == target \in AllowedSessionTransitions(current)

\* ------------------------------------------------------- pipeline/errors.py
\* An exception is named by its error_code; "untyped" is any exception that is
\* not a PipelineError and so has no error_code attribute (httpx errors,
\* IndexError, NameError, ...).  "none" is no exception.
PipelineErrorCodes == {"pipeline_error", "download_error", "analysis_error",
                       "styling_error", "caption_error", "publish_error",
                       "veo_generation_error", "video_quality_error"}

IsPipelineError(exc) == exc \in PipelineErrorCodes

\* ------------------------------------------------------------ the Post row
\* 0 stands for NULL in a numeric column, <<>> for a NULL video URL.
NoUrl == <<>>

NewPost(media) ==
    [ status                  |-> "draft",
      media_type              |-> media,
      source_image_urls       |-> 0,       \* len(); reference_image is set with it
      style_brief             |-> 0,
      styled_image            |-> 0,
      caption                 |-> 0,
      video_url               |-> NoUrl,
      selected_variant_index  |-> 0,
      publish_idempotency_key |-> 0,
      instagram_post_id       |-> 0,
      instagram_url           |-> 0,
      error_code              |-> "none" ]

NullSnap == NewPost("single")

\* A commit that leaves a CANCELLED row alone; C28_CancelMidRunIsOverwritten
\* fails on it.
Flush_Mutant(db, base, new) ==
    IF db.status = "cancelled" THEN db
    ELSE [f \in DOMAIN db |-> IF new[f] # base[f] THEN new[f] ELSE db[f]]

\* session.commit(): the UPDATE carries only the attributes whose value differs
\* from the value this session loaded or last wrote (base); the other columns
\* keep what the database holds.
Flush(db, base, new) ==
    [f \in DOMAIN db |-> IF new[f] # base[f] THEN new[f] ELSE db[f]]

\* The attributes of the loaded Post whose loaded value a run of that kind can
\* come to depend on: it reads them later, or it writes them with a value they
\* can already hold (and then no UPDATE is sent).  The other attributes are
\* written with values that differ from any loaded value (NULL to set, a fresh
\* URL or id), so their loaded value decides nothing.
LoadedFields(kind) ==
    CASE kind = "image"    -> {"status", "media_type", "source_image_urls", "error_code"}
      [] kind = "video"    -> {"status", "media_type", "source_image_urls", "error_code"}
      [] kind = "reelthis" -> {"status", "media_type"}
      [] kind = "extend"   -> {}
      [] kind = "ad"       -> {"status", "media_type"}
      [] kind = "rewrite"  -> {"status"}
      [] kind = "publish"  -> {"status", "media_type", "video_url", "error_code",
                               "selected_variant_index", "publish_idempotency_key"}

\* session.get(Post, post_id)
Load(kind, p) ==
    [f \in DOMAIN p |-> IF f \in LoadedFields(kind) THEN p[f] ELSE NullSnap[f]]

\* The publish identifiers of the Post.
PublishIds(p) == <<p.instagram_post_id, p.instagram_url, p.publish_idempotency_key>>

\* --------------------------------------------------------------- the runs
\* An image pipeline that analyzes before it downloads; C9_StagesInOrder fails
\* on it.
Stages_Mutant(kind) ==
    CASE kind = "image"    -> <<"analyze", "download", "style", "caption", "review">>
      [] kind = "video"    -> <<"download", "analyze", "style", "video_generate",
                                "caption", "review">>
      [] kind = "reelthis" -> <<"video_generate", "caption">>
      [] kind = "extend"   -> <<"video_extend">>
      [] kind = "ad"       -> <<"caption">>
      [] kind = "rewrite"  -> <<"caption">>
      [] kind = "publish"  -> <<"post">>

\* orchestrator.py: the stage_run scopes of each entry point, in program order
Stages(kind) ==
    CASE kind = "image"    -> <<"download", "analyze", "style", "caption", "review">>
      [] kind = "video"    -> <<"download", "analyze", "style", "video_generate",
                                "caption", "review">>
      [] kind = "reelthis" -> <<"video_generate", "caption">>
      [] kind = "extend"   -> <<"video_extend">>
      [] kind = "ad"       -> <<"caption">>
      [] kind = "rewrite"  -> <<"caption">>
      [] kind = "publish"  -> <<"post">>

IdleRun ==
    [ kind    |-> "none",
      pc      |-> "idle",
      si      |-> 0,          \* index in Stages(kind) of the current stage
      arg     |-> 0,          \* video_variation of run_video_extension
      job     |-> 0,          \* held by the run: the VideoJob loaded, the poster's result
      snap    |-> NullSnap,   \* the Post object of this run's session
      entry   |-> "none",     \* run_publish: Post.status as the run found it
      exc     |-> "none",     \* the exception that is propagating
      msgs    |-> <<>> ]      \* chat messages this run has sent

DoneRun == [IdleRun EXCEPT !.pc = "done"]

NoReturn == [run |-> 0, kind |-> "none", outcome |-> "none", status |-> "none",
             msgs |-> <<>>]

StageOf(r) == Stages(runs[r].kind)[runs[r].si]

Used == {r \in RunIds : runs[r].pc # "idle"}
Running == {r \in RunIds : runs[r].pc \notin {"idle", "queued", "done"}}

\* task.delay(...): the task is put on the queue.
Delay(rs, kind, arg) ==
    LET n == Cardinality({r \in RunIds : rs[r].pc # "idle"}) + 1
    IN  [rs EXCEPT ![n] = [IdleRun EXCEPT !.kind = kind, !.pc = "queued", !.arg = arg]]

CanDelay == Cardinality(Used) < MaxRuns

Say(run, kind, arg) == [run EXCEPT !.msgs = Append(@, <<kind, arg>>)]

\* The run returns to the task queue: outcome is "ok", "failed" (an error, or a
\* precondition that was not met), "noop" or "escaped" (an exception left the
\* entry point); dbStatus is Post.status in the
\* database at that moment.
Return(r, run, outcome, dbStatus) ==
    /\ runs' = [runs EXCEPT ![r] = DoneRun]
    /\ returned' = [run |-> r, kind |-> run.kind, outcome |-> outcome,
                    status |-> dbStatus, msgs |-> run.msgs]

\* The failure message of an except handler (orchestrator.py 238, 250, 276,
\* 282, 391, 397, ...): send_text has no handler of its own (bot/sender.py
\* 60-61), so either the chat transport takes the message and the entry point
\* returns, or the transport raises and the exception leaves the entry point
\* ("escaped") with the message unsent.  What the task queue does with that
\* exception (workers/tasks.py 24) is outside the entry point.
NotifyFailure(r, dbStatus) ==
    \E sent \in BOOLEAN :
        IF sent
        THEN Return(r, Say(runs[r], "error", 0), "failed", dbStatus)
        ELSE Return(r, runs[r], "escaped", dbStatus)

\* ------------------------------------------------- stage_run (the ledger)
JobRow(r, stage, status, code, fin) ==
    [run |-> r, stage |-> stage, attempt |-> 1, status |-> status,
     error_code |-> code, finished |-> fin]

\* A scope whose row is born finished; C7_OneRowPerScope fails on it.
StageRunEnter_Mutant(jr, r, stage) ==
    jr \cup {JobRow(r, stage, "succeeded", "none", TRUE)}

\* orchestrator.py 31-37: the row is added with status started and committed.
StageRunEnter(jr, r, stage) == jr \cup {JobRow(r, stage, "started", "none", FALSE)}

\* A ledger that adds the succeeded row and keeps the started one;
\* C17_HappyPathLedger fails on it.
StageRunSucceed_Mutant(jr, r, stage) ==
    jr \cup {JobRow(r, stage, "succeeded", "none", TRUE)}

\* orchestrator.py 40-42: the body ended without an exception (a return inside
\* the with block included: the generator resumes after the yield).
StageRunSucceed(jr, r, stage) ==
    (jr \ {JobRow(r, stage, "started", "none", FALSE)})
        \cup {JobRow(r, stage, "succeeded", "none", TRUE)}

\* A ledger that drops the exception's own code; C8_FailedRowCarriesErrorCode
\* fails on it.
ErrorCodeOf_Mutant(exc) == "internal_error"

\* orchestrator.py 45: getattr(exc, "error_code", "internal_error")
ErrorCodeOf(exc) == IF IsPipelineError(exc) THEN exc ELSE "internal_error"

\* orchestrator.py 43-49: the body raised exc; the row is committed failed and
\* the exception is raised again.
StageRunFail(jr, r, stage, exc) ==
    (jr \ {JobRow(r, stage, "started", "none", FALSE)})
        \cup {JobRow(r, stage, "failed", ErrorCodeOf(exc), TRUE)}

\* ------------------------------------------------------------------- Init
\* The state _process_ingestion leaves: a DRAFT Post made by create_draft_post
\* (carousel when more than one photo was sent), the session linked to it in
\* AWAITING_APPROVAL, and the image or the video task on the queue.
\* No album is being received (ALBUM_CACHE is empty, handlers.py 49).
AlbumIdle ==
    /\ albumCache = [g \in GroupIds |-> NoBuffer]
    /\ albumEvents = [e \in AlbumEventIds |-> NoEvent]
    /\ finalizers = <<>>
    /\ ingestions = <<>>
    /\ buffersCreated = [g \in GroupIds |-> 0]

\* No generator function is under test.
GenIdle ==
    /\ call = NoCall
    /\ result = NoResult

Init ==
    /\ \E media \in {"single", "carousel"} : post = NewPost(media)
    /\ variants = {}
    /\ videoJobs = {}
    /\ jobRuns = {}
    /\ session = "awaiting_approval"
    /\ \E k \in {"image", "video"} :
          runs = Delay([r \in RunIds |-> IdleRun], k, 0)
    /\ external = [posts |-> 0, calls |-> 0]
    /\ hist = "none"
    /\ returned = NoReturn
    /\ inputs = 0
    /\ AlbumIdle
    /\ GenIdle

\* ------------------------------------------------------ history variables
\* hist is "reviewed" once the Post has become REVIEW_READY and "approved" once
\* the operator has approved since then; an approve issued before the Post was
\* ever REVIEW_READY, or before it became REVIEW_READY again, does not count.
HistOnWrite(h, old, new) ==
    IF new.status = "review_ready" /\ old.status # "review_ready" THEN "reviewed" ELSE h

HistOnApprove(h) == IF h = "none" THEN "none" ELSE "approved"

\* ---------------------------------------------------------- worker steps
\* A worker slot takes the task from the queue.
CanStart(r, kind) ==
    /\ runs[r].pc = "queued"
    /\ runs[r].kind = kind
    /\ Cardinality(Running) < MaxWorkers

AtBody(r, kind, stage) ==
    /\ runs[r].pc = "body"
    /\ runs[r].kind = kind
    /\ StageOf(r) = stage

\* The statement after a with stage_run(...) block that ended normally.
Advance(run) == [run EXCEPT !.pc = "enter", !.si = @ + 1]

\* The stage body wrote `new` into the Post object and committed, and the scope
\* ended normally.
BodyCommits(r, new) ==
    /\ post' = Flush(post, runs[r].snap, new)
    /\ jobRuns' = StageRunSucceed(jobRuns, r, StageOf(r))
    /\ hist' = HistOnWrite(hist, post, post')

\* with stage_run(session, post_id, stage): the scope is entered.
StageEnter(r) ==
    /\ runs[r].pc = "enter"
    /\ jobRuns' = StageRunEnter(jobRuns, r, StageOf(r))
    /\ runs' = [runs EXCEPT ![r] = [@ EXCEPT !.pc = "body"]]
    /\ UNCHANGED <<albumVars, genVars, inputs, post, variants, videoJobs, session, external, hist>>
    /\ returned' = NoReturn

\* What a stage body can raise before it has written anything: the typed error
\* of the stage's collaborator (each wraps whatever goes wrong in its own
\* error), and an untyped exception where the body itself does I/O
\* (_fetch_bytes, the storage upload, the review sender).
StageErrors(kind, stage) ==
    CASE stage = "download"       -> {"download_error"}
      [] stage = "analyze"        -> {"analysis_error"}
      [] stage = "style"          -> {"styling_error"}
      [] stage = "caption"        -> {"caption_error"}
      [] stage = "review"         -> {"untyped"}
      [] stage = "video_generate" -> {"veo_generation_error", "untyped"}
      [] stage = "video_extend"   -> {"veo_generation_error", "untyped"}
      [] stage = "post"           -> {"untyped"}

\* The scope's except branch: the row is committed failed, the exception goes on
\* to the entry point's handlers.
Raise(r, exc) ==
    /\ jobRuns' = StageRunFail(jobRuns, r, StageOf(r), exc)
    /\ runs' = [runs EXCEPT ![r] = [@ EXCEPT !.pc = "except", !.exc = exc]]

StageRaise(r) ==
    /\ runs[r].pc = "body"
    /\ \E exc \in StageErrors(runs[r].kind, StageOf(r)) :
          \* run_publish: _fetch_bytes of the reel (orchestrator.py 312) raises
          \* here; the poster's failures are PublishFail
          /\ runs[r].kind = "publish" =>
                runs[r].snap.media_type = "reel" /\ runs[r].snap.video_url # NoUrl
          /\ Raise(r, exc)
    /\ UNCHANGED <<albumVars, genVars, inputs, post, variants, videoJobs, session, external, hist>>
    /\ returned' = NoReturn

\* ------------------------------------------------ run_generation_pipeline
\* orchestrator.py 105: the cancellation check at entry
CancelledAtEntry_Mutant(p) == FALSE
CancelledAtEntry(p) == p.status = "cancelled"

\* orchestrator.py 99-111 and 425-438: the Post is loaded; unless it is
\* CANCELLED it is written PROCESSING (and reel, by the video pipeline) with
\* the error columns cleared.
PipelineEntry(r, kind, media) ==
    /\ CanStart(r, kind)
    /\ IF CancelledAtEntry(post)
       THEN /\ Return(r, runs[r], "noop", post.status)
            /\ UNCHANGED post
       ELSE LET new == [post EXCEPT !.status = "processing", !.error_code = "none",
                                    !.media_type = IF media = "keep" THEN @ ELSE media]
            IN  /\ post' = new
                /\ runs' = [runs EXCEPT ![r] =
                               [@ EXCEPT !.pc = "enter", !.si = 1, !.snap = Load(kind, new)]]
                /\ returned' = NoReturn
    /\ UNCHANGED <<albumVars, genVars, inputs, variants, videoJobs, jobRuns, session, external, hist>>

GenEntry(r) == PipelineEntry(r, "image", "keep")

\* orchestrator.py 114-120 and 442-448: the reference is downloaded (one image
\* or several) and stored.
Download(r, kind) ==
    /\ AtBody(r, kind, "download")
    /\ \E n \in {1, 2} :
          LET new == [runs[r].snap EXCEPT !.source_image_urls = n]
          IN  /\ BodyCommits(r, new)
              /\ runs' = [runs EXCEPT ![r] = Advance([@ EXCEPT !.snap = new])]
    /\ UNCHANGED <<albumVars, genVars, inputs, variants, videoJobs, session, external>>
    /\ returned' = NoReturn

GenDownload(r) == Download(r, "image")

\* orchestrator.py 122-125 and 451-462
Analyze(r, kind) ==
    /\ AtBody(r, kind, "analyze")
    /\ LET new == [runs[r].snap EXCEPT !.style_brief = 1]
       IN  /\ BodyCommits(r, new)
           /\ runs' = [runs EXCEPT ![r] = Advance([@ EXCEPT !.snap = new])]
    /\ UNCHANGED <<albumVars, genVars, inputs, variants, videoJobs, session, external>>
    /\ returned' = NoReturn

GenAnalyze(r) == Analyze(r, "image")

\* orchestrator.py 132-137: carousel when the reference has more than one image
StyledMediaType(snap) ==
    IF snap.source_image_urls > 1 THEN "carousel" ELSE snap.media_type

\* saree_validator.py 44-68: what verify_preserved finds for one variant: the
\* SSIM score is at or above the threshold (is_valid, line 66) or below it, and
\* the LPIPS score is over its threshold or not (None when LPIPS is absent).
Verdicts == [ssim_ok : BOOLEAN, lpips_high : BOOLEAN]

GoodVerdict == [ssim_ok |-> TRUE, lpips_high |-> FALSE]

\* A STYLE stage that stores the validator's verdict as it came;
\* C38_LowScoreIsWarningOnly fails on it.
PersistedIsValid_Mutant(verdict) == verdict.ssim_ok /\ ~verdict.lpips_high

\* orchestrator.py 159-163: a failing score is logged and is_valid is set True.
PersistedIsValid(verdict) ==
    IF ~verdict.ssim_ok \/ verdict.lpips_high THEN TRUE ELSE verdict.ssim_ok

\* orchestrator.py 157-185: the rows inserted for the variants the styler
\* returned, each with its score (ssim_ok: at or above the threshold) and the
\* is_valid computed from the verdict.
StyledVariants(r, n, verdict) ==
    {[variant_index |-> i, run |-> r, ssim_ok |-> verdict[i].ssim_ok,
      is_valid |-> PersistedIsValid(verdict[i])] : i \in 1..n}

\* The rows of a run whose variants all passed the check.
NewVariants(r, n) == StyledVariants(r, n, [i \in 1..n |-> GoodVerdict])

\* A STYLE stage that appends to the rows it finds; C33_StyleReplacesVariants
\* fails on it.
DeleteVariants_Mutant(vs) == vs

\* orchestrator.py 146-151: every PostVariant row of the post is deleted.
DeleteVariants(vs) == {}

\* orchestrator.py 127-196: the styler returned, the old rows are deleted and
\* committed, the new rows are inserted with the styled image.
GenStyle(r) ==
    /\ AtBody(r, "image", "style")
    /\ LET new == [runs[r].snap EXCEPT !.media_type = StyledMediaType(runs[r].snap),
                                       !.styled_image = 1]
       IN  /\ BodyCommits(r, new)
           /\ runs' = [runs EXCEPT ![r] = Advance([@ EXCEPT !.snap = new])]
    /\ \E verdict \in [1..VariationModifiers -> Verdicts] :
          variants' = DeleteVariants(variants) \cup StyledVariants(r, VariationModifiers, verdict)
    /\ UNCHANGED <<albumVars, genVars, inputs, videoJobs, session, external>>
    /\ returned' = NoReturn

\* orchestrator.py 146-159: the old rows are deleted and committed (with the
\* media_type written at 137), then _fetch_bytes raises.
GenStyleRaiseAfterDelete(r) ==
    /\ AtBody(r, "image", "style")
    /\ LET new == [runs[r].snap EXCEPT !.media_type = StyledMediaType(runs[r].snap)]
       IN  /\ post' = Flush(post, runs[r].snap, new)
           /\ jobRuns' = StageRunFail(jobRuns, r, "style", "untyped")
           /\ runs' = [runs EXCEPT ![r] =
                          [@ EXCEPT !.pc = "except", !.exc = "untyped", !.snap = new]]
    /\ variants' = DeleteVariants(variants)
    /\ UNCHANGED <<albumVars, genVars, inputs, videoJobs, session, external, hist>>
    /\ returned' = NoReturn

\* orchestrator.py 198-208, 569-582, 707-720
Caption(r, kind) ==
    /\ AtBody(r, kind, "caption")
    /\ LET new == [runs[r].snap EXCEPT !.caption = 1, !.status = "review_ready"]
       IN  /\ BodyCommits(r, new)
           /\ runs' = [runs EXCEPT ![r] =
                          IF kind = "reelthis" THEN [@ EXCEPT !.pc = "tail", !.snap = new]
                          ELSE Advance([@ EXCEPT !.snap = new])]
    /\ UNCHANGED <<albumVars, genVars, inputs, variants, videoJobs, session, external>>
    /\ returned' = NoReturn

GenCaption(r) == Caption(r, "image")

\* orchestrator.py 210-236 and 585-602: the review package is sent and the run
\* returns.
Review(r, kind) ==
    /\ AtBody(r, kind, "review")
    /\ jobRuns' = StageRunSucceed(jobRuns, r, "review")
    /\ Return(r, Say(runs[r], "review", 0), "ok", post.status)
    /\ UNCHANGED <<albumVars, genVars, inputs, post, variants, videoJobs, session, external, hist>>

GenReview(r) == Review(r, "image")

\* orchestrator.py 237-250 and 603-616: both handlers write FAILED and the
\* error code, commit, and send one message.
PipelineExcept(r, kind) ==
    /\ runs[r].pc = "except"
    /\ runs[r].kind = kind
    /\ LET new == [runs[r].snap EXCEPT !.status = "failed",
                                       !.error_code = ErrorCodeOf(runs[r].exc)]
       IN  /\ post' = Flush(post, runs[r].snap, new)
           /\ NotifyFailure(r, post'.status)
    /\ UNCHANGED <<albumVars, genVars, inputs, variants, videoJobs, jobRuns, session, external, hist>>

GenExcept(r) == PipelineExcept(r, "image")

\* ------------------------------------------ run_video_generation_pipeline
VidEntry(r) == PipelineEntry(r, "video", "reel")
VidDownload(r) == Download(r, "video")
VidAnalyze(r) == Analyze(r, "video")

\* orchestrator.py 465-495: the styled start frame; no PostVariant row is
\* written by the video pipeline.
VidStyle(r) ==
    /\ AtBody(r, "video", "style")
    /\ LET new == [runs[r].snap EXCEPT !.styled_image = 1]
       IN  /\ BodyCommits(r, new)
           /\ runs' = [runs EXCEPT ![r] = Advance([@ EXCEPT !.snap = new])]
    /\ UNCHANGED <<albumVars, genVars, inputs, variants, videoJobs, session, external>>
    /\ returned' = NoReturn

\* The URL of clip i uploaded by run r (the key holds a fresh uuid).
VideoUrl(r, i) == <<r, i>>

\* orchestrator.py 547-553 and 687-692: one VideoJob row per clip; the rows of
\* earlier runs stay.
NewVideoJobs(r, n) ==
    {[variation_number |-> i, video_url |-> VideoUrl(r, i), status |-> "done", run |-> r]
        : i \in 1..n}

\* orchestrator.py 498-566 and 640-705: the clips are generated and uploaded,
\* the first becomes the Post's video.
VideoGenerate(r, kind) ==
    /\ AtBody(r, kind, "video_generate")
    /\ videoJobs' = videoJobs \cup NewVideoJobs(r, VideoVariations)
    /\ LET new == [runs[r].snap EXCEPT !.video_url = VideoUrl(r, 1)]
       IN  /\ BodyCommits(r, new)
           /\ runs' = [runs EXCEPT ![r] = Advance([@ EXCEPT !.snap = new])]
    /\ UNCHANGED <<albumVars, genVars, inputs, variants, session, external>>
    /\ returned' = NoReturn

VidGenerate(r) == VideoGenerate(r, "video")
VidCaption(r) == Caption(r, "video")
VidReview(r) == Review(r, "video")
VidExcept(r) == PipelineExcept(r, "video")

\* ----------------------------------------------- run_reel_this_conversion
\* orchestrator.py 626-634
ReelThisEntry(r) ==
    /\ CanStart(r, "reelthis")
    /\ IF post.styled_image = 0
       THEN /\ Return(r, Say(runs[r], "no_styled_image", 0), "failed", post.status)
            /\ UNCHANGED post
       ELSE LET new == [post EXCEPT !.media_type = "reel", !.status = "processing"]
            IN  /\ post' = new
                /\ runs' = [runs EXCEPT ![r] =
                               [@ EXCEPT !.pc = "enter", !.si = 1, !.snap = Load("reelthis", new)]]
                /\ returned' = NoReturn
    /\ UNCHANGED <<albumVars, genVars, inputs, variants, videoJobs, jobRuns, session, external, hist>>

ReelThisGenerate(r) == VideoGenerate(r, "reelthis")
ReelThisCaption(r) == Caption(r, "reelthis")

\* orchestrator.py 722-738: the review package and "Reel is ready for review!"
ReelThisTail(r) ==
    /\ runs[r].pc = "tail"
    /\ runs[r].kind = "reelthis"
    /\ Return(r, Say(Say(runs[r], "review", 0), "reel_ready", 0), "ok", post.status)
    /\ UNCHANGED <<albumVars, genVars, inputs, post, variants, videoJobs, jobRuns, session, external, hist>>

\* orchestrator.py 739-747: FAILED is written; the error columns are not.
ReelThisExcept(r) ==
    /\ runs[r].pc = "except"
    /\ runs[r].kind = "reelthis"
    /\ LET new == [runs[r].snap EXCEPT !.status = "failed"]
       IN  /\ post' = Flush(post, runs[r].snap, new)
           /\ NotifyFailure(r, post'.status)
    /\ UNCHANGED <<albumVars, genVars, inputs, variants, videoJobs, jobRuns, session, external, hist>>

\* ---------------------------------------------------- run_video_extension
\* orchestrator.py 760-764: .first() of the rows with that variation number
JobsOfVariation(n) == {j \in videoJobs : j.variation_number = n}

\* orchestrator.py 755-769
ExtendEntry(r) ==
    /\ CanStart(r, "extend")
    /\ IF JobsOfVariation(runs[r].arg) = {}
       THEN Return(r, Say(runs[r], "no_video_to_extend", 0), "failed", post.status)
       ELSE /\ \E j \in JobsOfVariation(runs[r].arg) :
                  runs' = [runs EXCEPT ![r] =
                      [Say(@, "extending", 0) EXCEPT !.pc = "enter", !.si = 1, !.job = j.run]]
            /\ returned' = NoReturn
    /\ UNCHANGED <<albumVars, genVars, inputs, post, variants, videoJobs, jobRuns, session, external, hist>>

\* orchestrator.py 772-795: the row and the Post take the extended clip's URL.
ExtendBody(r) ==
    /\ AtBody(r, "extend", "video_extend")
    /\ videoJobs' =
          {IF j.variation_number = runs[r].arg /\ j.run = runs[r].job
           THEN [j EXCEPT !.video_url = VideoUrl(r, 0), !.status = "extended"]
           ELSE j : j \in videoJobs}
    /\ LET new == [runs[r].snap EXCEPT !.video_url = VideoUrl(r, 0)]
       IN  /\ BodyCommits(r, new)
           /\ Return(r, Say(runs[r], "extended", 0), "ok", post'.status)
    /\ UNCHANGED <<albumVars, genVars, inputs, variants, session, external>>

\* orchestrator.py 796-799: a message, and nothing is written to the Post.
ExtendExcept(r) ==
    /\ runs[r].pc = "except"
    /\ runs[r].kind = "extend"
    /\ NotifyFailure(r, post.status)
    /\ UNCHANGED <<albumVars, genVars, inputs, post, variants, videoJobs, jobRuns, session, external, hist>>

\* -------------------------------------------- run_multi_scene_ad_pipeline
\* orchestrator.py 809-817
AdEntry(r) ==
    /\ CanStart(r, "ad")
    /\ IF post.styled_image = 0
       THEN /\ Return(r, Say(runs[r], "no_styled_image", 0), "failed", post.status)
            /\ UNCHANGED post
       ELSE LET new == [post EXCEPT !.status = "processing", !.media_type = "reel"]
            IN  /\ post' = new
                /\ runs' = [runs EXCEPT ![r] = [@ EXCEPT !.pc = "pre", !.snap = Load("ad", new)]]
                /\ returned' = NoReturn
    /\ UNCHANGED <<albumVars, genVars, inputs, variants, videoJobs, jobRuns, session, external, hist>>

\* orchestrator.py 820-853, before any stage_run scope.  _fetch_bytes raises
\* (no message yet); or "generating" is sent and the generator raises its typed
\* error; or it returns no scene (the message of 837, then the return of 842);
\* or it returns scenes, and then line 853 uses Path, a name the function never
\* binds (the module does not import pathlib): NameError.
AdGenerate(r) ==
    /\ runs[r].pc = "pre"
    /\ runs[r].kind = "ad"
    /\ \/ /\ runs' = [runs EXCEPT ![r] = [@ EXCEPT !.pc = "except", !.exc = "untyped"]]
          /\ returned' = NoReturn
       \/ /\ runs' = [runs EXCEPT ![r] =
                         [Say(@, "generating", 0) EXCEPT !.pc = "except",
                                                         !.exc = "veo_generation_error"]]
          /\ returned' = NoReturn
       \/ Return(r, Say(Say(runs[r], "generating", 0), "one_scene", 0), "failed", post.status)
       \/ \E scenes \in {1, 2} :
             /\ runs' = [runs EXCEPT ![r] =
                   [(IF scenes < 2 THEN Say(Say(@, "generating", 0), "one_scene", 0)
                     ELSE Say(@, "generating", 0))
                    EXCEPT !.pc = "except", !.exc = "untyped"]]
             /\ returned' = NoReturn
    /\ UNCHANGED <<albumVars, genVars, inputs, post, variants, videoJobs, jobRuns, session, external, hist>>

\* orchestrator.py 888-897: FAILED and the message are written; error_code is
\* not.
AdExcept(r) ==
    /\ runs[r].pc = "except"
    /\ runs[r].kind = "ad"
    /\ LET new == [runs[r].snap EXCEPT !.status = "failed"]
       IN  /\ post' = Flush(post, runs[r].snap, new)
           /\ NotifyFailure(r, post'.status)
    /\ UNCHANGED <<albumVars, genVars, inputs, variants, videoJobs, jobRuns, session, external, hist>>

\* ---------------------------------------------------- run_caption_rewrite
\* A guard that lets every Post through; C24_RewriteWithoutBriefIsNoOp fails
\* on it.
RewriteReady_Mutant(p) == TRUE

\* orchestrator.py 258: the Post has a style brief and a styled image
RewriteReady(p) == p.style_brief # 0 /\ p.styled_image # 0

\* orchestrator.py 256-263
RewriteEntry(r) ==
    /\ CanStart(r, "rewrite")
    /\ IF ~RewriteReady(post)
       THEN Return(r, runs[r], "noop", post.status)
       ELSE /\ runs' = [runs EXCEPT ![r] =
                           [@ EXCEPT !.pc = "enter", !.si = 1, !.snap = Load("rewrite", post)]]
            /\ returned' = NoReturn
    /\ UNCHANGED <<albumVars, genVars, inputs, post, variants, videoJobs, jobRuns, session, external, hist>>

\* orchestrator.py 266-279
RewriteCaption(r) ==
    /\ AtBody(r, "rewrite", "caption")
    /\ LET new == [runs[r].snap EXCEPT !.caption = 1, !.status = "review_ready"]
       IN  /\ BodyCommits(r, new)
           /\ Return(r, Say(runs[r], "caption_ready", 0), "ok", post'.status)
    /\ UNCHANGED <<albumVars, genVars, inputs, variants, videoJobs, session, external>>

\* orchestrator.py 280-283: a message, and nothing is written to the Post.
RewriteExcept(r) ==
    /\ runs[r].pc = "except"
    /\ runs[r].kind = "rewrite"
    /\ NotifyFailure(r, post.status)
    /\ UNCHANGED <<albumVars, genVars, inputs, post, variants, videoJobs, jobRuns, session, external, hist>>

\* ------------------------------------------------------------ run_publish
\* A guard that lets a POSTED Post through; C2_PostedPublishIsNoOp fails on it.
AlreadyPosted_Mutant(p) == FALSE

\* orchestrator.py 291: the already-posted guard
AlreadyPosted(p) == p.status = "posted"

\* orchestrator.py 296: the stored key, or a fresh one (uuid4: no two runs draw
\* the same, so the run's own number stands for it)
IdempotencyKey(key, r) ==
    IF key # 0 THEN key ELSE r

\* orchestrator.py 286-293: the Post is loaded; a POSTED Post ends the run.
PublishEntry(r) ==
    /\ CanStart(r, "publish")
    /\ IF AlreadyPosted(post)
       THEN Return(r, Say(runs[r], "already_posted", post.instagram_url), "noop", post.status)
       ELSE /\ runs' = [runs EXCEPT ![r] =
                           [@ EXCEPT !.pc = "loaded", !.snap = Load("publish", post),
                                     !.entry = post.status]]
            /\ returned' = NoReturn
    /\ UNCHANGED <<albumVars, genVars, inputs, post, variants, videoJobs, jobRuns, session, external, hist>>

\* orchestrator.py 295-297: APPROVED and the key (the one loaded, or a fresh
\* one) are written and committed.  Another worker process can have committed
\* between this run's session.get and this commit.
PublishApprove(r) ==
    /\ runs[r].pc = "loaded"
    /\ runs[r].kind = "publish"
    /\ LET new == [runs[r].snap EXCEPT !.status = "approved",
                                       !.publish_idempotency_key = IdempotencyKey(@, r)]
       IN  /\ post' = Flush(post, runs[r].snap, new)
           /\ runs' = [runs EXCEPT ![r] = [@ EXCEPT !.pc = "enter", !.si = 1, !.snap = new]]
    /\ UNCHANGED <<albumVars, genVars, inputs, variants, videoJobs, jobRuns, session, external, hist>>
    /\ returned' = NoReturn

\* orchestrator.py 341-345: the variant the run publishes
PublishVariants(snap) ==
    {v \in variants : v.variant_index =
        (IF snap.selected_variant_index # 0 THEN snap.selected_variant_index ELSE 1)}

\* orchestrator.py 302, 346: what the POST stage needs
PublishReady(snap) ==
    IF snap.media_type = "reel" THEN snap.video_url # NoUrl ELSE PublishVariants(snap) # {}

\* orchestrator.py 302-304, 346-348: the video or the variant is missing; one
\* message, and the return leaves the stage_run scope normally.
PublishMissing(r) ==
    /\ AtBody(r, "publish", "post")
    /\ ~PublishReady(runs[r].snap)
    /\ jobRuns' = StageRunSucceed(jobRuns, r, "post")
    /\ Return(r, Say(runs[r], IF runs[r].snap.media_type = "reel"
                              THEN "no_video" ELSE "select_variant", 0),
              "failed", post.status)
    /\ UNCHANGED <<albumVars, genVars, inputs, post, variants, videoJobs, session, external, hist>>

\* poster.py post_single_image / post_carousel / post_reel (dry_run off): the
\* idempotency key is not sent to the platform; every call that reaches
\* media_publish creates a new media object.
PosterCall(ext, created) ==
    [posts |-> IF created THEN ext.posts + 1 ELSE ext.posts, calls |-> ext.calls + 1]

\* orchestrator.py 334-368: the poster returned inside the POST scope; leaving
\* the scope commits the row succeeded.  The result is held by the run.
PublishCall(r) ==
    /\ AtBody(r, "publish", "post")
    /\ PublishReady(runs[r].snap)
    /\ external' = PosterCall(external, TRUE)
    /\ jobRuns' = StageRunSucceed(jobRuns, r, "post")
    /\ runs' = [runs EXCEPT ![r] = [@ EXCEPT !.pc = "store", !.job = external'.posts]]
    /\ UNCHANGED <<albumVars, genVars, inputs, post, variants, videoJobs, session, hist>>
    /\ returned' = NoReturn

\* orchestrator.py 370-377: after the scope the result is stored, the Post is
\* written POSTED and committed, the user is told.
PublishStore(r) ==
    /\ runs[r].pc = "store"
    /\ runs[r].kind = "publish"
    /\ LET new == [runs[r].snap EXCEPT !.instagram_post_id = runs[r].job,
                                       !.instagram_url = runs[r].job,
                                       !.status = "posted"]
       IN  /\ post' = Flush(post, runs[r].snap, new)
           /\ Return(r, Say(runs[r], "posted", new.instagram_url), "ok", post'.status)
    /\ hist' = HistOnWrite(hist, post, post')
    /\ UNCHANGED <<albumVars, genVars, inputs, variants, videoJobs, jobRuns, session, external>>

\* poster.py 78-118, 128-195, 213-275: a request fails and PublishError is
\* raised, before media_publish (nothing created) or after it (the permalink
\* request failed: the media object exists).
PublishFail(r) ==
    /\ AtBody(r, "publish", "post")
    /\ PublishReady(runs[r].snap)
    /\ \E created \in BOOLEAN : external' = PosterCall(external, created)
    /\ Raise(r, "publish_error")
    /\ UNCHANGED <<albumVars, genVars, inputs, post, variants, videoJobs, session, hist>>
    /\ returned' = NoReturn

\* orchestrator.py 378-389 (the untyped handler stores "publish_error" too)
PublishExcept(r) ==
    /\ runs[r].pc = "except"
    /\ runs[r].kind = "publish"
    /\ LET new == [runs[r].snap EXCEPT !.status = "failed", !.error_code = "publish_error"]
       IN  /\ post' = Flush(post, runs[r].snap, new)
           /\ NotifyFailure(r, post'.status)
    /\ UNCHANGED <<albumVars, genVars, inputs, variants, videoJobs, jobRuns, session, external, hist>>

\* One message or button press of the operator reaches the bot.
Input ==
    /\ inputs < MaxInputs
    /\ inputs' = inputs + 1

\* ------------------------------------------------------- bot/handlers.py
\* A handler loads the Post in a session of its own, writes and commits with
\* no await in between: one step.  session.post_id is this Post throughout.

\* handlers.py 186-190, 607-611: .first() of the rows with that number
FirstVideoJob(n) == JobsOfVariation(n)

\* handlers.py 182-197: "1" / "2" / "3".  On a reel the option must have a
\* VideoJob row with a URL, otherwise the handler returns before the commit.
HSelect ==
    /\ Input
    /\ \E n \in 1..MaxSelect :
          IF post.media_type = "reel"
          THEN \E j \in FirstVideoJob(n) :
                  post' = [post EXCEPT !.selected_variant_index = n,
                                       !.video_url = j.video_url]
          ELSE post' = [post EXCEPT !.selected_variant_index = n]
    /\ hist' = HistOnWrite(hist, post, post')
    /\ UNCHANGED <<albumVars, genVars, variants, videoJobs, jobRuns, session, runs, external>>
    /\ returned' = NoReturn

\* handlers.py 199-205
HEditCaption ==
    /\ Input
    /\ session' = "awaiting_caption_edit"
    /\ UNCHANGED <<albumVars, genVars, post, variants, videoJobs, jobRuns, runs, external, hist>>
    /\ returned' = NoReturn

\* handlers.py 220-233 and 587-595: the task a redo puts on the queue
RedoTask(p, asReel) ==
    IF asReel
    THEN IF p.styled_image # 0 THEN "reelthis" ELSE "video"
    ELSE "image"

\* handlers.py 207-234: "redo" / "redo <style>"
HRedo(typed) ==
    /\ Input
    /\ CanDelay
    /\    LET asReel == post.media_type = "reel" \/ typed
          IN  /\ post' = [post EXCEPT !.status = "processing",
                                      !.media_type = IF asReel THEN "reel" ELSE @]
              /\ runs' = Delay(runs, RedoTask(post, asReel), 0)
    /\ hist' = HistOnWrite(hist, post, post')
    /\ UNCHANGED <<albumVars, genVars, variants, videoJobs, jobRuns, session, external>>
    /\ returned' = NoReturn

\* handlers.py 236-241
HCancel ==
    /\ Input
    /\ post' = [post EXCEPT !.status = "cancelled"]
    /\ session' = "idle"
    /\ hist' = HistOnWrite(hist, post, post')
    /\ UNCHANGED <<albumVars, genVars, variants, videoJobs, jobRuns, runs, external>>
    /\ returned' = NoReturn

\* handlers.py 243-248
HApprove ==
    /\ Input
    /\ post' = [post EXCEPT !.status = "approved"]
    /\ session' = "awaiting_post_confirmation"
    /\ hist' = HistOnApprove(hist)
    /\ UNCHANGED <<albumVars, genVars, variants, videoJobs, jobRuns, runs, external>>
    /\ returned' = NoReturn

\* handlers.py 254-257
HPostNow ==
    /\ Input
    /\ CanDelay
    /\ runs' = Delay(runs, "publish", 0)
    /\ UNCHANGED <<albumVars, genVars, post, variants, videoJobs, jobRuns, session, external, hist>>
    /\ returned' = NoReturn

\* handlers.py 259-264: of the texts text_handler passes on (478-480), only
\* "reel this" and "extend ..." get this far; in AWAITING_CAPTION_EDIT they
\* are taken as the rewrite instruction.
HRewrite ==
    /\ Input
    /\ session = "awaiting_caption_edit"
    /\ CanDelay
    /\ runs' = Delay(runs, "rewrite", 0)
    /\ session' = "review_ready"
    /\ UNCHANGED <<albumVars, genVars, post, variants, videoJobs, jobRuns, external, hist>>
    /\ returned' = NoReturn

\* handlers.py 266-269
HReelThis ==
    /\ Input
    /\ session # "awaiting_caption_edit"
    /\ CanDelay
    /\ runs' = Delay(runs, "reelthis", 0)
    /\ UNCHANGED <<albumVars, genVars, post, variants, videoJobs, jobRuns, session, external, hist>>
    /\ returned' = NoReturn

\* handlers.py 273, 620: post.selected_variant_index or 1
SelectedOrFirst(p) ==
    IF p.selected_variant_index # 0 THEN p.selected_variant_index ELSE 1

\* handlers.py 271-276: "extend" / "extend <n>" (given = 0: no number)
HExtend ==
    /\ Input
    /\ session # "awaiting_caption_edit"
    /\ CanDelay
    /\ \E given \in 0..MaxSelect :
          runs' = Delay(runs, "extend", IF given # 0 THEN given ELSE SelectedOrFirst(post))
    /\ UNCHANGED <<albumVars, genVars, post, variants, videoJobs, jobRuns, session, external, hist>>
    /\ returned' = NoReturn

\* handlers.py 430-447: /cancel <post_id>
CmdCancel ==
    /\ Input
    /\ post' = [post EXCEPT !.status = "cancelled"]
    /\ session' = "idle"
    /\ hist' = HistOnWrite(hist, post, post')
    /\ UNCHANGED <<albumVars, genVars, variants, videoJobs, jobRuns, runs, external>>
    /\ returned' = NoReturn

\* handlers.py 575-578
CbSelect ==
    /\ Input
    /\ \E n \in 1..MaxSelect : post' = [post EXCEPT !.selected_variant_index = n]
    /\ hist' = HistOnWrite(hist, post, post')
    /\ UNCHANGED <<albumVars, genVars, variants, videoJobs, jobRuns, session, runs, external>>
    /\ returned' = NoReturn

\* handlers.py 579-583
CbEditCaption ==
    /\ Input
    /\ session' = "awaiting_caption_edit"
    /\ UNCHANGED <<albumVars, genVars, post, variants, videoJobs, jobRuns, runs, external, hist>>
    /\ returned' = NoReturn

\* handlers.py 584-595
CbRedo ==
    /\ Input
    /\ CanDelay
    /\ post' = [post EXCEPT !.status = "processing"]
    /\ runs' = Delay(runs, RedoTask(post, post.media_type = "reel"), 0)
    /\ hist' = HistOnWrite(hist, post, post')
    /\ UNCHANGED <<albumVars, genVars, variants, videoJobs, jobRuns, session, external>>
    /\ returned' = NoReturn

\* handlers.py 596-599: the session row is not touched
CbCancel ==
    /\ Input
    /\ post' = [post EXCEPT !.status = "cancelled"]
    /\ hist' = HistOnWrite(hist, post, post')
    /\ UNCHANGED <<albumVars, genVars, variants, videoJobs, jobRuns, session, runs, external>>
    /\ returned' = NoReturn

\* handlers.py 600-603: the session row is not touched
CbApprove ==
    /\ Input
    /\ post' = [post EXCEPT !.status = "approved"]
    /\ hist' = HistOnApprove(hist)
    /\ UNCHANGED <<albumVars, genVars, variants, videoJobs, jobRuns, session, runs, external>>
    /\ returned' = NoReturn

\* handlers.py 604-618
CbSelectVideo ==
    /\ Input
    /\ \E n \in 1..MaxSelect : \E j \in FirstVideoJob(n) :
          post' = [post EXCEPT !.video_url = j.video_url, !.selected_variant_index = n]
    /\ hist' = HistOnWrite(hist, post, post')
    /\ UNCHANGED <<albumVars, genVars, variants, videoJobs, jobRuns, session, runs, external>>
    /\ returned' = NoReturn

\* handlers.py 619-621
CbExtend ==
    /\ Input
    /\ CanDelay
    /\ runs' = Delay(runs, "extend", SelectedOrFirst(post))
    /\ UNCHANGED <<albumVars, genVars, post, variants, videoJobs, jobRuns, session, external, hist>>
    /\ returned' = NoReturn

\* handlers.py 622-624
CbReelThis ==
    /\ Input
    /\ CanDelay
    /\ runs' = Delay(runs, "reelthis", 0)
    /\ UNCHANGED <<albumVars, genVars, post, variants, videoJobs, jobRuns, session, external, hist>>
    /\ returned' = NoReturn

\* handlers.py 478-494 and 100-105: a text that parse_message_text gives no
\* command (parser.py 72-85) does not reach _handle_action; text_handler hands
\* it to _process_ingestion, which finds no supported reference link in it,
\* answers UNSUPPORTED_LINK_MESSAGE and returns before it opens a session.
HFreeText ==
    /\ Input
    /\ UNCHANGED <<albumVars, genVars, post, variants, videoJobs, jobRuns, session, runs, external, hist>>
    /\ returned' = NoReturn

\* orchestrator.py 802: run_multi_scene_ad_pipeline is public; no handler or
\* task of the repository calls it, so its caller is the environment.
CallAdPipeline ==
    /\ Input
    /\ CanDelay
    /\ runs' = Delay(runs, "ad", 0)
    /\ UNCHANGED <<albumVars, genVars, post, variants, videoJobs, jobRuns, session, external, hist>>
    /\ returned' = NoReturn

Handler ==
    \/ HSelect \/ HEditCaption \/ (\E typed \in BOOLEAN : HRedo(typed)) \/ HCancel \/ HApprove \/ HPostNow
    \/ HRewrite \/ HReelThis \/ HExtend \/ CmdCancel \/ HFreeText
    \/ CbSelect \/ CbEditCaption \/ CbRedo \/ CbCancel \/ CbApprove
    \/ CbSelectVideo \/ CbExtend \/ CbReelThis
    \/ CallAdPipeline

Worker(r) ==
    \/ StageEnter(r) \/ StageRaise(r)
    \/ GenEntry(r) \/ GenDownload(r) \/ GenAnalyze(r) \/ GenStyle(r)
    \/ GenStyleRaiseAfterDelete(r) \/ GenCaption(r) \/ GenReview(r) \/ GenExcept(r)
    \/ VidEntry(r) \/ VidDownload(r) \/ VidAnalyze(r) \/ VidStyle(r)
    \/ VidGenerate(r) \/ VidCaption(r) \/ VidReview(r) \/ VidExcept(r)
    \/ ReelThisEntry(r) \/ ReelThisGenerate(r) \/ ReelThisCaption(r)
    \/ ReelThisTail(r) \/ ReelThisExcept(r)
    \/ ExtendEntry(r) \/ ExtendBody(r) \/ ExtendExcept(r)
    \/ AdEntry(r) \/ AdGenerate(r) \/ AdExcept(r)
    \/ RewriteEntry(r) \/ RewriteCaption(r) \/ RewriteExcept(r)
    \/ PublishEntry(r) \/ PublishApprove(r) \/ PublishMissing(r) \/ PublishCall(r) \/ PublishStore(r)
    \/ PublishFail(r) \/ PublishExcept(r)

Next == Handler \/ \E r \in RunIds : Worker(r)

Spec == Init /\ [][Next]_vars

\* ------------------------------------------- the publish phase on its own
\* orchestrator.py 114-234: the Post a successful image generation leaves
\* (n reference images), written stage by stage.
ReviewedPost(n) ==
    [NewPost(IF n > 1 THEN "carousel" ELSE "single") EXCEPT
        !.status = "review_ready", !.source_image_urls = n, !.style_brief = 1,
        !.styled_image = 1, !.caption = 1]

\* The state after run_generation_pipeline has gone through for the Post
\* (run 0, before the tasks counted here): the review package is with the
\* operator, nothing is queued.
InitReviewed ==
    /\ \E n \in {1, 2} : post = ReviewedPost(n)
    /\ variants = NewVariants(0, VariationModifiers)
    /\ videoJobs = {}
    /\ jobRuns = {JobRow(0, Stages("image")[i], "succeeded", "none", TRUE) : i \in 1..5}
    /\ session = "awaiting_approval"
    /\ runs = [r \in RunIds |-> IdleRun]
    /\ external = [posts |-> 0, calls |-> 0]
    /\ hist = "reviewed"
    /\ returned = NoReturn
    /\ inputs = 0
    /\ AlbumIdle
    /\ GenIdle

\* What the operator does with a package under review, short of asking for a
\* new generation.
PublishHandler ==
    \/ HSelect \/ HEditCaption \/ HCancel \/ HApprove \/ HPostNow \/ CmdCancel \/ HFreeText
    \/ CbSelect \/ CbEditCaption \/ CbCancel \/ CbApprove

PublishWorker(r) ==
    \/ StageEnter(r)
    \/ PublishEntry(r) \/ PublishApprove(r) \/ PublishMissing(r) \/ PublishCall(r) \/ PublishStore(r)
    \/ PublishFail(r) \/ PublishExcept(r)

NextPublish == PublishHandler \/ \E r \in RunIds : PublishWorker(r)

SpecPublish == InitReviewed /\ [][NextPublish]_vars

\* ============================================== album buffer (handlers.py)
\* The Post and the tasks that _process_ingestion creates are not followed
\* from here: the pipeline's variables stay as before the first Post.
pipelineVars ==
    <<post, variants, videoJobs, jobRuns, session, runs, external, hist, returned, inputs>>

PipelineIdle ==
    /\ post = NullSnap
    /\ variants = {}
    /\ videoJobs = {}
    /\ jobRuns = {}
    /\ session = "idle"
    /\ runs = [r \in RunIds |-> IdleRun]
    /\ external = [posts |-> 0, calls |-> 0]
    /\ hist = "none"
    /\ returned = NoReturn
    /\ inputs = 0

\* A new buffer that says its finalize is scheduled already, so that none is;
\* C40_BufferIsEventuallyRemoved fails on it.
SetDefault_Mutant(cache, g) ==
    IF cache[g].live THEN cache[g] ELSE [NoBuffer EXCEPT !.live = TRUE, !.scheduled = TRUE]

\* handlers.py 538-548: ALBUM_CACHE.setdefault(media_group_id, {...})
SetDefault(cache, g) ==
    IF cache[g].live THEN cache[g] ELSE [NoBuffer EXCEPT !.live = TRUE]

\* handlers.py 549-552: the photos of the message are appended; a caption, if
\* the message has one, replaces the text (caption 0: no caption).
Extend(payload, e, caption) ==
    [payload EXCEPT !.photos = Append(@, e),
                    !.text = IF caption # 0 THEN caption ELSE @]

\* handlers.py 529-535: an album message of the operator arrives (the chat
\* transport delivers the photos of one album as separate messages with one
\* media_group_id); its handler starts and awaits _extract_photo_urls.
\* Message e carries photo e; caption 0 is no caption.
AlbumArrive(e) ==
    /\ albumEvents[e].pc = "none"
    /\ \A d \in 1..(e - 1) : albumEvents[d].pc # "none"
    /\ \E g \in GroupIds, c \in {0, e} :
          albumEvents' = [albumEvents EXCEPT ![e] = [group |-> g, caption |-> c, pc |-> "extract"]]
    /\ UNCHANGED <<albumCache, finalizers, ingestions, buffersCreated>>
    /\ UNCHANGED <<pipelineVars, genVars>>

\* handlers.py 537-556: the await has returned; under ALBUM_LOCK, with no
\* suspension point inside, the buffer is fetched or created, extended, and
\* its finalize is scheduled unless the buffer says it already is.
AlbumStore(e) ==
    /\ albumEvents[e].pc = "extract"
    /\ LET g == albumEvents[e].group
           payload == Extend(SetDefault(albumCache, g), e, albumEvents[e].caption)
       IN  /\ albumCache' = [albumCache EXCEPT ![g] = [payload EXCEPT !.scheduled = TRUE]]
           /\ buffersCreated' = [buffersCreated EXCEPT ![g] = IF albumCache[g].live THEN @ ELSE @ + 1]
           /\ finalizers' = IF payload.scheduled THEN finalizers
                            ELSE Append(finalizers, [group |-> g, pc |-> "sleep"])
    /\ albumEvents' = [albumEvents EXCEPT ![e].pc = "done"]
    /\ UNCHANGED ingestions
    /\ UNCHANGED <<pipelineVars, genVars>>

\* handlers.py 289-291: is there something to ingest
HasText_Mutant(payload) == payload.live
HasText(payload) == payload.live /\ payload.text # 0

\* handlers.py 281-299: asyncio.sleep(2.0) is over (two seconds after the
\* message that created the buffer was stored, whatever the other handlers of
\* the group are waiting for); the buffer is popped under the lock and, when a
\* caption was recorded, _process_ingestion is called with its photos.
FinalizeAlbum(f) ==
    /\ f \in DOMAIN finalizers
    /\ finalizers[f].pc = "sleep"
    /\ LET g == finalizers[f].group
           payload == albumCache[g]
       IN  /\ albumCache' = [albumCache EXCEPT ![g] = NoBuffer]
           /\ ingestions' = IF HasText(payload)
                            THEN Append(ingestions, [group |-> g, text |-> payload.text,
                                                     photos |-> payload.photos])
                            ELSE ingestions
    /\ finalizers' = [finalizers EXCEPT ![f].pc = "done"]
    /\ UNCHANGED <<albumEvents, buffersCreated>>
    /\ UNCHANGED <<pipelineVars, genVars>>

InitAlbum ==
    /\ PipelineIdle
    /\ AlbumIdle
    /\ GenIdle

NextAlbum ==
    \/ \E e \in AlbumEventIds : AlbumArrive(e)
    \/ \E e \in AlbumEventIds : AlbumStore(e)
    \/ \E f \in 1..MaxEvents : FinalizeAlbum(f)

SpecAlbum == InitAlbum /\ [][NextAlbum]_vars

\* The event loop runs every task that is ready: a finalize whose sleep is
\* over gets the lock and pops (handlers.py 281-284).
SpecAlbumFair ==
    SpecAlbum /\ \A f \in 1..MaxEvents : WF_vars(FinalizeAlbum(f))

\* ======================================= the generators' loops over items
\* What one call of the underlying generator can do: GeminiStyler's request
\* for one image returns or raises StylingError (gemini_styler.py 195, 316,
\* 337, 338, 572, 573); generate_reel_from_styled_image returns a path or
\* raises VeoGenerationError or VeoTimeoutError (veo_generator.py 290, 322,
\* 328), or whatever else the client, the download or the file system raises
\* (veo_generator.py 295, 308, 325, 331, 334).
CallOutcomes(fn) ==
    IF fn = "styler"
    THEN {"ok", "styling_error"}
    ELSE {"ok", "veo_generation_error", "veo_timeout_error", "other_error"}

Raised(exc, reasons, attempted) ==
    [raised |-> exc, value |-> <<>>, reasons |-> reasons, attempted |-> attempted, done |-> TRUE]

Returned(value, attempted) ==
    [raised |-> "none", value |-> value, reasons |-> <<>>, attempted |-> attempted, done |-> TRUE]

\* gemini_styler.py 486-549: the images of one variant, one per reference
\* image (position), in order; nothing catches what a position raises.
RECURSIVE StyleItems(_, _, _)
StyleItems(outcomes, position, item_urls) ==
    IF position > Len(outcomes)
    THEN Returned(item_urls, position - 1)
    ELSE IF outcomes[position] = "ok"
         THEN StyleItems(outcomes, position + 1, Append(item_urls, position))
         ELSE Raised(outcomes[position], <<position>>, position)

\* gemini_styler.py 435-559 (dry_run off): one StyledVariant per modifier of
\* variation_modifiers[:1], holding the item URLs of every position.
generate_variants(outcomes) ==
    LET items == StyleItems(outcomes, 1, <<>>)
    IN  IF items.raised # "none" THEN items
        ELSE Returned([idx \in 1..VariationModifiers |-> items.value], items.attempted)

\* veo_generator.py 397-420: one call per modifier; the two Veo errors are
\* collected and the loop goes on, any other exception leaves the function at
\* once; with no video and some failure collected, one VeoGenerationError
\* carries the collected reasons.
RECURSIVE ReelVariations(_, _, _, _)
ReelVariations(outcomes, i, variations, failures) ==
    IF i > Len(outcomes)
    THEN IF variations = <<>> /\ failures # <<>>
         THEN Raised("veo_generation_error", failures, i - 1)
         ELSE Returned(variations, i - 1)
    ELSE CASE outcomes[i] = "ok" ->
                 ReelVariations(outcomes, i + 1, Append(variations, i), failures)
           [] outcomes[i] \in {"veo_generation_error", "veo_timeout_error"} ->
                 ReelVariations(outcomes, i + 1, variations, Append(failures, i))
           [] OTHER -> Raised(outcomes[i], <<i>>, i)

\* veo_generator.py 387-422
generate_reel_variations(outcomes) == ReelVariations(outcomes, 1, <<>>, <<>>)

\* orchestrator.py 139-144, 474-479: the STYLE stage calls the styler for the
\* Post's reference images.
CallGenerateVariants ==
    /\ call.fn = "styler"
    /\ ~result.done
    /\ result' = generate_variants(call.outcomes)
    /\ UNCHANGED <<pipelineVars, albumVars, call>>

\* orchestrator.py 511-515, 654-658: the VIDEO_GENERATE stage calls the
\* generator for the modifiers.
CallGenerateReelVariations ==
    /\ call.fn = "veo"
    /\ ~result.done
    /\ result' = generate_reel_variations(call.outcomes)
    /\ UNCHANGED <<pipelineVars, albumVars, call>>

\* ------------------------------------------- orchestrator.py 77-83
\* A photo URL the operator uploaded (input_photo_urls), a photo row of the
\* catalog product (ProductPhoto: id, is_primary, photo_url).
UploadUrl(k) == <<"upload", k>>

PhotoUrl(id) == <<"product", id>>

PhotoIds == 1..MaxPhotos

\* A sort that ignores is_primary; C25_SareeSources fails on it.
PhotoBefore_Mutant(a, b) == a.id < b.id

\* orchestrator.py 81: key=lambda p: (not p.is_primary, p.id)
PhotoBefore(a, b) ==
    \/ a.is_primary /\ ~b.is_primary
    \/ a.is_primary = b.is_primary /\ a.id < b.id

\* orchestrator.py 81: sorted(post.product.photos, key=...)
RECURSIVE SortedPhotos(_)
SortedPhotos(photos) ==
    IF photos = {} THEN <<>>
    ELSE LET first == CHOOSE a \in photos : \A b \in photos \ {a} : PhotoBefore(a, b)
         IN  <<first>> \o SortedPhotos(photos \ {first})

\* orchestrator.py 77-83
resolve_saree_sources(uploads, product, photos) ==
    IF uploads # <<>> THEN uploads
    ELSE IF product /\ photos # {}
         THEN LET ordered == SortedPhotos(photos)
              IN  [i \in 1..Len(ordered) |-> PhotoUrl(ordered[i].id)]
         ELSE <<>>

\* orchestrator.py 128, 466: a stage resolves the product photos.
CallResolveSareeSources ==
    /\ call.fn = "sources"
    /\ ~result.done
    /\ result' = Returned(resolve_saree_sources(call.uploads, call.product, call.photos), 1)
    /\ UNCHANGED <<pipelineVars, albumVars, call>>

\* tests/test_state_machine.py 5-7: the table is asked about one pair.
CallCanTransitionPost ==
    /\ call.fn = "transition"
    /\ ~result.done
    /\ result' = Returned(can_transition_post(call.current, call.target), 1)
    /\ UNCHANGED <<pipelineVars, albumVars, call>>

\* ------------------------------------------------- poster.py 197-275
\* The status_code values the container status request can answer.
ContainerStatuses == {"IN_PROGRESS", "FINISHED", "ERROR", "EXPIRED"}

\* poster.py 231-244: the polling loop of post_reel from poll i on, then step
\* 3.  FINISHED breaks out of the loop, ERROR raises, anything else sleeps
\* and polls again; the for statement has no else branch, so when the polls
\* run out the function goes on to media_publish (246-252).
RECURSIVE PollReel(_, _)
PollReel(polls, i) ==
    IF i > Len(polls) THEN Returned("media_publish", Len(polls))
    ELSE IF polls[i] = "FINISHED" THEN Returned("media_publish", i)
    ELSE IF polls[i] = "ERROR" THEN Raised("publish_error", <<>>, i)
    ELSE PollReel(polls, i + 1)

\* poster.py 197-275 (dry_run off, the container created)
post_reel(polls) == PollReel(polls, 1)

\* orchestrator.py 334-340: run_publish publishes a reel.
CallPostReel ==
    /\ call.fn = "post_reel"
    /\ ~result.done
    /\ result' = post_reel(call.polls)
    /\ UNCHANGED <<pipelineVars, albumVars, call>>

\* The inputs: for the generators, the function, the number of items
\* (reference images, modifiers) and what each underlying call does; for
\* resolve_saree_sources, the uploaded URLs, whether the Post has a product,
\* and the product's photo rows; for can_transition_post, the two statuses;
\* for post_reel, what each status poll answers.
InitGen ==
    /\ PipelineIdle
    /\ AlbumIdle
    /\ \/ \E fn \in {"styler", "veo"}, n \in 1..MaxCalls :
             \E outcomes \in [1..n -> CallOutcomes(fn)] :
                 call = [fn |-> fn, outcomes |-> outcomes]
       \/ \E n \in 0..MaxUploads, product \in BOOLEAN, ids \in SUBSET PhotoIds :
             \E uploads \in [1..n -> {UploadUrl(k) : k \in 1..MaxUploads}],
                primary \in [ids -> BOOLEAN] :
                 call = [fn |-> "sources", uploads |-> uploads, product |-> product,
                         photos |-> {[id |-> i, is_primary |-> primary[i]] : i \in ids}]
       \/ \E current \in PostStatus, target \in PostStatus :
             call = [fn |-> "transition", current |-> current, target |-> target]
       \/ \E polls \in [1..MaxPolls -> ContainerStatuses] :
             call = [fn |-> "post_reel", polls |-> polls]
    /\ result = NoResult

NextGen ==
    \/ CallGenerateVariants
    \/ CallGenerateReelVariations
    \/ CallResolveSareeSources
    \/ CallCanTransitionPost
    \/ CallPostReel

SpecGen == InitGen /\ [][NextGen]_vars

\* ================================================================ claims

\* C1: however two or more run_publish invocations on one Post interleave (two
\* "post now" at once, or a retry after a failure that came after the platform
\* had created the post), at most one post exists on the platform.
C1_AtMostOneExternalPost == external.posts <= 1

\* C2: run_publish on a Post that is already POSTED sends the stored URL and
\* returns: the publish collaborator is not called, no JobRun row is created,
\* no field of the Post changes.
C2_PostedPublishIsNoOp ==
    [][\A r \in RunIds :
          (/\ runs[r].pc = "queued"
           /\ runs[r].kind = "publish"
           /\ runs'[r].pc # "queued"
           /\ post.status = "posted")
          => /\ post' = post
             /\ jobRuns' = jobRuns
             /\ external' = external
             /\ runs'[r].pc = "done"
             /\ returned'.run = r
             /\ returned'.msgs = << <<"already_posted", post.instagram_url>> >>]_vars

C2_Witness ==
    /\ returned.kind = "publish"
    /\ returned.outcome = "noop"
    /\ returned.msgs # <<>>
    /\ post.status = "posted"
    /\ external.posts = 1

\* C3: once the Post is POSTED, its external post id, its permalink and its
\* idempotency key never change, whatever handler or orchestrator run acts
\* afterwards.
C3_PublishIdsFrozen ==
    [][post.status = "posted" => PublishIds(post') = PublishIds(post)]_vars

\* C4: every change of Post.status made by the orchestrator or by a handler is
\* a pair (current, target) for which can_transition_post is true.
C4_OnlyAllowedTransitions ==
    [][post'.status # post.status =>
          post'.status \in
             (CASE post.status = "draft"        -> {"processing", "cancelled"}
                [] post.status = "processing"   -> {"review_ready", "failed", "cancelled"}
                [] post.status = "review_ready" -> {"approved", "processing", "cancelled"}
                [] post.status = "approved"     -> {"posted", "failed", "cancelled"}
                [] post.status = "failed"       -> {"processing", "cancelled"}
                [] OTHER                        -> {})]_vars

\* C5: the Post becomes POSTED only after it was REVIEW_READY and the operator
\* approved it since then; "post now" without an approve never gets as far as
\* the publish collaborator.
C5_PublishOnlyAfterApprove ==
    [][/\ (post'.status = "posted" /\ post.status # "posted") => hist = "approved"
       /\ external'.calls # external.calls => hist = "approved"]_vars

\* C6: a Post whose media type is reel and whose status is APPROVED has a
\* video_url.
C6_ApprovedReelHasVideo ==
    (post.media_type = "reel" /\ post.status = "approved") => post.video_url # NoUrl

C7_Key(row) == <<row.run, row.stage>>

\* C7: each execution of a stage_run scope creates exactly one JobRun row, and
\* the row is committed as started before the body runs; the row changes status
\* exactly once, to succeeded or to failed with a finish time, and is never
\* modified or deleted after that.
C7_OneRowPerScope ==
    [][/\ \A r \in RunIds :
             (runs[r].pc = "enter" /\ runs'[r].pc # "enter") =>
                /\ runs'[r].pc = "body"
                /\ \E row \in jobRuns' \ jobRuns :
                      /\ jobRuns' = jobRuns \cup {row}
                      /\ C7_Key(row) = <<r, Stages(runs[r].kind)[runs[r].si]>>
                      /\ row.status = "started"
                      /\ ~row.finished
                      /\ \A old \in jobRuns : C7_Key(old) # C7_Key(row)
       /\ \A r \in RunIds :
             runs'[r].pc = "body" =>
                Cardinality({row \in jobRuns' : row.run = r}) = runs'[r].si
       /\ \A row \in jobRuns' \ jobRuns :
             row.status # "started" =>
                /\ row.status \in {"succeeded", "failed"}
                /\ row.finished
                /\ \E old \in jobRuns \ jobRuns' :
                      C7_Key(old) = C7_Key(row) /\ old.status = "started"
       /\ \A old \in jobRuns \ jobRuns' :
             /\ old.status = "started"
             /\ \E row \in jobRuns' \ jobRuns :
                   C7_Key(row) = C7_Key(old) /\ row.status # "started"]_vars

C7_Witness ==
    \E a, b, c \in jobRuns :
        /\ a.status = "succeeded" /\ a.finished
        /\ b.status = "failed" /\ b.finished
        /\ c.status = "started" /\ ~c.finished
        /\ a.run = c.run

\* C8: when the body of a stage_run scope raises, the row is committed failed
\* with the exception's error_code (internal_error when the exception has
\* none), and the same exception goes on to the caller.
C8_FailedRowCarriesErrorCode ==
    [][\A r \in RunIds :
          (runs[r].pc = "body" /\ runs'[r].pc = "except") =>
             /\ runs'[r].exc # "none"
             /\ \E row \in jobRuns' :
                   /\ C7_Key(row) = <<r, Stages(runs[r].kind)[runs[r].si]>>
                   /\ row.status = "failed"
                   /\ row.finished
                   /\ row.error_code =
                         IF runs'[r].exc = "untyped" THEN "internal_error"
                         ELSE runs'[r].exc
             /\ \A row \in jobRuns' : row.run = r /\ row.status = "started" => FALSE]_vars

C8_Witness ==
    \E r, q \in RunIds :
        /\ runs[r].pc = "except" /\ runs[r].exc = "untyped" /\ runs[r].si >= 1
        /\ \E row \in jobRuns : row.run = r /\ row.error_code = "internal_error"
        /\ \E row \in jobRuns : row.run = q /\ row.error_code = "download_error"

C9_Order == <<"download", "analyze", "style", "caption", "review">>

C9_Row(r, i, status) ==
    \E row \in jobRuns : row.run = r /\ row.stage = C9_Order[i] /\ row.status = status

C9_Written(i) ==
    CASE i = 1 -> post.source_image_urls # 0
      [] i = 2 -> post.style_brief # 0
      [] i = 3 -> post.styled_image # 0
      [] i = 4 -> post.caption # 0
      [] OTHER -> TRUE

\* C9: in run_generation_pipeline the stages start in the order DOWNLOAD,
\* ANALYZE, STYLE, CAPTION, REVIEW; a stage starts only after the row of the
\* stage before it is committed succeeded, together with the Post fields that
\* stage wrote.
C9_StagesInOrder ==
    \A r \in RunIds :
        (runs[r].kind = "image" /\ runs[r].pc \in {"enter", "body", "except"}) =>
           /\ \A row \in jobRuns :
                 row.run = r => \E i \in 1..5 : row.stage = C9_Order[i]
           /\ \A i \in 1..5 :
                 (\E row \in jobRuns : row.run = r /\ row.stage = C9_Order[i]) =>
                    /\ \A j \in 1..(i - 1) : C9_Row(r, j, "succeeded")
                    /\ \A j \in 1..(i - 1) : C9_Written(j)
           /\ \A i \in 1..5 : C9_Row(r, i, "succeeded") => C9_Written(i)

C9_Witness ==
    \E r \in RunIds :
        /\ runs[r].kind = "image"
        /\ runs[r].pc = "body"
        /\ C9_Row(r, 5, "started")
        /\ \E n \in {1, 2} : post = ReviewedPost(n)
        /\ variants = NewVariants(r, VariationModifiers)

\* C10: whenever an orchestrator entry point (image generation, video
\* generation, reel-this, extension, multi-scene ad, caption rewrite, publish)
\* fails, on a collaborator's error or on a precondition that is not met,
\* Post.status is FAILED when the run returns.
C10_FailedRunLeavesFailed ==
    returned.outcome = "failed" => returned.status = "failed"

\* The chat messages of the entry points whose text reports that the run
\* failed: the message of an except handler ("error") and the messages of the
\* unmet preconditions.  "Could only generate 1 scene. Sending as a standard
\* Reel instead." (orchestrator.py 837) announces a fallback, not a failure.
C11_FailureReports ==
    {"error", "no_styled_image", "no_video_to_extend", "no_video", "select_variant"}

C11_Reports(msgs) ==
    Cardinality({i \in 1..Len(msgs) : msgs[i][1] \in C11_FailureReports})

\* C11: every failing run of an orchestrator entry point sends exactly one
\* chat message that reports the failure: never none and never two.
C11_OneFailureMessage ==
    returned.outcome \in {"failed", "escaped"} => C11_Reports(returned.msgs) = 1

\* C12: no exception escapes an orchestrator entry point: whatever collaborator
\* call fails, the entry point returns normally to the task queue.
C12_NoExceptionEscapes ==
    returned.outcome # "escaped"

\* C16: when Post.status is CANCELLED at the moment run_generation_pipeline or
\* run_video_generation_pipeline starts, the run is over in that step: no Post
\* field changes, no JobRun row is added, no stage (and so no collaborator)
\* runs, no variant or video row changes, and no chat message is sent.
C16_CancelledRunIsNoOp ==
    [][\A r \in RunIds :
          (/\ runs[r].pc = "queued"
           /\ runs[r].kind \in {"image", "video"}
           /\ post.status = "cancelled"
           /\ runs'[r] # runs[r]) =>
              /\ runs'[r] = DoneRun
              /\ post' = post
              /\ jobRuns' = jobRuns
              /\ variants' = variants
              /\ videoJobs' = videoJobs
              /\ external' = external
              /\ returned'.run = r
              /\ returned'.msgs = <<>>]_vars

C16_Witness ==
    /\ returned.outcome = "noop"
    /\ returned.kind \in {"image", "video"}
    /\ post.status = "cancelled"
    /\ \A row \in jobRuns : row.run # returned.run

\* The run that has just returned is an image run whose STYLE row is failed
\* with styling_error: the image-generation collaborator threw.
C18_StylerThrew ==
    /\ returned.kind = "image"
    /\ \E row \in jobRuns :
          /\ row.run = returned.run
          /\ row.stage = "style"
          /\ row.status = "failed"
          /\ row.error_code = "styling_error"

\* C18: when the image-generation collaborator throws in the STYLE stage, the
\* run ends with the STYLE row failed, Post.status FAILED, Post.error_code
\* styling_error, and no PostVariant row for the post: the rows an earlier
\* successful run left are gone as well.
C18_StyleFailureLeavesNoVariant ==
    C18_StylerThrew =>
        /\ returned.status = "failed"
        /\ post.error_code = "styling_error"
        /\ variants = {}

C17_RowsOf(r, stage) == {row \in jobRuns : row.run = r /\ row.stage = stage}

\* C17: when every collaborator succeeds and nothing else touches the Post, a
\* run of run_generation_pipeline on a DRAFT Post has added, when it returns,
\* exactly one JobRun row for each of DOWNLOAD, ANALYZE, STYLE, CAPTION and
\* REVIEW, each succeeded, and no other row; Post.status is REVIEW_READY and
\* the Post has at least one PostVariant row.
C17_HappyPathLedger ==
    (/\ returned.kind = "image"
     /\ returned.outcome = "ok"
     /\ returned.run = 1
     /\ inputs = 0) =>
        /\ \A i \in 1..5 :
              /\ Cardinality(C17_RowsOf(1, C9_Order[i])) = 1
              /\ C9_Row(1, i, "succeeded")
        /\ Cardinality(jobRuns) = 5
        /\ returned.status = "review_ready"
        /\ post.status = "review_ready"
        /\ variants # {}
        /\ \A v \in variants : v.run = 1

C17_Witness ==
    /\ returned.kind = "image"
    /\ returned.outcome = "ok"
    /\ returned.run = 1
    /\ inputs = 0
    /\ post = ReviewedPost(1)
    /\ Cardinality(jobRuns) = 5

C13_FinalizersOf(g) == {f \in DOMAIN finalizers : finalizers[f].group = g}

\* C13: however the handlers of the album messages of one group id interleave,
\* exactly one buffer is created for the group and exactly one delayed
\* finalize is scheduled for it.
C13_OneBufferOneFinalize ==
    \A g \in GroupIds :
        (\E e \in AlbumEventIds : albumEvents[e].group = g /\ albumEvents[e].pc = "done") =>
            /\ buffersCreated[g] = 1
            /\ Cardinality(C13_FinalizersOf(g)) = 1

C14_EventsOf(g) == {e \in AlbumEventIds : albumEvents[e].group = g}

C14_Photos(i) == {ingestions[i].photos[k] : k \in 1..Len(ingestions[i].photos)}

\* C14: the messages of one album (one group id) end up in one ingestion: once
\* every message has been handled and every finalize has run, a group of which
\* some message had a caption has exactly one ingestion, and the photos of
\* every message of the group are in it.
C14_BurstIsOneIngestion ==
    (/\ \A e \in AlbumEventIds : albumEvents[e].pc = "done"
     /\ \A f \in DOMAIN finalizers : finalizers[f].pc = "done") =>
        \A g \in GroupIds :
            (\E e \in C14_EventsOf(g) : albumEvents[e].caption # 0) =>
                /\ Cardinality({i \in DOMAIN ingestions : ingestions[i].group = g}) = 1
                /\ \A i \in DOMAIN ingestions :
                      ingestions[i].group = g => C14_Photos(i) = C14_EventsOf(g)

\* C15: _finalize_album removes the buffer of its group from ALBUM_CACHE; when
\* a caption was recorded in the buffer it calls _process_ingestion once, with
\* that caption and all the photos of the buffer; when none was recorded it
\* calls nothing (and so sends nothing).
C15_FinalizePopsAndIngestsOnce ==
    [][\A f \in DOMAIN finalizers :
          (finalizers[f].pc = "sleep" /\ finalizers'[f].pc = "done") =>
              LET g == finalizers[f].group
                  payload == albumCache[g]
              IN  /\ albumCache'[g] = NoBuffer
                  /\ payload.text # 0 =>
                        ingestions' = Append(ingestions, [group |-> g, text |-> payload.text,
                                                          photos |-> payload.photos])
                  /\ payload.text = 0 => ingestions' = ingestions]_vars

C15_Witness ==
    /\ \E i \in DOMAIN ingestions :
          /\ Len(ingestions[i].photos) >= 2
          /\ albumCache[ingestions[i].group] = NoBuffer
    /\ \E f \in DOMAIN finalizers :
          /\ finalizers[f].pc = "done"
          /\ \A i \in DOMAIN ingestions : ingestions[i].group # finalizers[f].group

C19_Succeeded == {i \in DOMAIN call.outcomes : call.outcomes[i] = "ok"}

\* C19: in the STYLE stage, when the generation of one of several images
\* fails, the remaining images are still attempted, and the styler fails only
\* if none succeeded; otherwise it returns what succeeded.
C19_StyleIsBestEffort ==
    (call.fn = "styler" /\ result.done) =>
        /\ result.attempted = Len(call.outcomes)
        /\ result.raised # "none" => C19_Succeeded = {}
        /\ result.raised = "none" =>
              \A idx \in DOMAIN result.value :
                  {result.value[idx][k] : k \in DOMAIN result.value[idx]} = C19_Succeeded

C20_Select(outcomes, keep(_)) ==
    LET F[i \in 0..Len(outcomes)] ==
            IF i = 0 THEN <<>>
            ELSE IF keep(outcomes[i]) THEN Append(F[i - 1], i) ELSE F[i - 1]
    IN  F[Len(outcomes)]

C20_IsOk(o) == o = "ok"

C20_IsFailure(o) == o # "ok"

\* C20: generate_reel_variations over N modifiers returns the outputs of
\* exactly the calls that succeeded, in modifier order, whenever at least one
\* call succeeds; when all N calls fail it raises one VeoGenerationError whose
\* message has the reason of every failed call.
C20_ReelVariationsResilient ==
    (call.fn = "veo" /\ result.done) =>
        IF \E i \in DOMAIN call.outcomes : call.outcomes[i] = "ok"
        THEN /\ result.raised = "none"
             /\ result.value = C20_Select(call.outcomes, C20_IsOk)
        ELSE /\ result.raised = "veo_generation_error"
             /\ result.reasons = C20_Select(call.outcomes, C20_IsFailure)

\* C21: for a single or carousel Post, run_publish calls the publish
\* collaborator only when a variant has been selected for the Post
\* (selected_variant_index is set); with none selected nothing is published.
C21_PublishNeedsSelectedVariant ==
    [][\A r \in RunIds :
          (/\ runs[r].kind = "publish"
           /\ runs[r].pc = "body"
           /\ runs'[r] # runs[r]
           /\ external'.calls # external.calls
           /\ runs[r].snap.media_type # "reel") =>
              runs[r].snap.selected_variant_index # 0]_vars

\* C22: the publish idempotency key of a Post is generated at most once: once
\* it is set it keeps its value through every later run_publish, and every
\* call of the publish collaborator for a single or carousel Post carries the
\* key the Post holds.
C22_IdempotencyKeyIsStable ==
    [][/\ post.publish_idempotency_key # 0 =>
             post'.publish_idempotency_key = post.publish_idempotency_key
       /\ \A r \in RunIds :
             (/\ runs[r].kind = "publish"
              /\ runs[r].pc = "body"
              /\ runs'[r] # runs[r]
              /\ external'.calls # external.calls
              /\ runs[r].snap.media_type # "reel") =>
                 runs[r].snap.publish_idempotency_key = post.publish_idempotency_key]_vars

\* C23: no two JobRun rows of the Post have the same stage and the same
\* attempt number: a stage that runs again (redo, retry, caption rewrite) gets
\* a row with another attempt number.
C23_AttemptsAreDistinct ==
    \A a, b \in jobRuns :
        (a.stage = b.stage /\ a.attempt = b.attempt) => a.run = b.run

\* C24: run_caption_rewrite on a Post without a style brief or without a
\* styled image is over in one step: no Post field changes, no JobRun row is
\* added, no stage (and so no collaborator) runs and no chat message is sent.
C24_RewriteWithoutBriefIsNoOp ==
    [][\A r \in RunIds :
          (/\ runs[r].pc = "queued"
           /\ runs[r].kind = "rewrite"
           /\ runs'[r] # runs[r]
           /\ (post.style_brief = 0 \/ post.styled_image = 0)) =>
              /\ runs'[r] = DoneRun
              /\ post' = post
              /\ jobRuns' = jobRuns
              /\ variants' = variants
              /\ external' = external
              /\ returned'.run = r
              /\ returned'.msgs = <<>>]_vars

C24_Witness ==
    /\ returned.kind = "rewrite"
    /\ returned.outcome = "noop"
    /\ returned.msgs = <<>>
    /\ post.styled_image = 0
    /\ \A row \in jobRuns : row.run # returned.run

\* C27: every change of the Session's state made by a chat handler is a pair
\* for which can_transition_session is true; in particular no handler moves
\* the session from IDLE to AWAITING_POST_CONFIRMATION.
C27_OnlyAllowedSessionTransitions ==
    [][session' # session => can_transition_session(session, session')]_vars

C25_PhotoOf(url) == CHOOSE p \in call.photos : PhotoUrl(p.id) = url

\* C25: resolve_saree_sources returns the Post's uploaded photo URLs
\* unchanged and in upload order when there is at least one; otherwise the
\* photo URLs of the Post's catalog product, primary photos first and then by
\* ascending photo id; otherwise the empty list.
C25_SareeSources ==
    (call.fn = "sources" /\ result.done) =>
        /\ result.raised = "none"
        /\ IF call.uploads # <<>>
           THEN result.value = call.uploads
           ELSE IF call.product /\ call.photos # {}
                THEN /\ Len(result.value) = Cardinality(call.photos)
                     /\ {result.value[i] : i \in DOMAIN result.value} =
                            {PhotoUrl(p.id) : p \in call.photos}
                     /\ \A i, j \in DOMAIN result.value :
                           i < j =>
                              LET a == C25_PhotoOf(result.value[i])
                                  b == C25_PhotoOf(result.value[j])
                              IN  /\ ~(~a.is_primary /\ b.is_primary)
                                  /\ a.is_primary = b.is_primary => a.id < b.id
                ELSE result.value = <<>>

C25_Witness ==
    /\ call.fn = "sources"
    /\ result.done
    /\ call.uploads = <<>>
    /\ call.product
    /\ Len(result.value) = 3
    /\ result.value[1] = PhotoUrl(3)
    /\ result.value[2] = PhotoUrl(1)

\* C26: can_transition_post(POSTED, t) and can_transition_post(CANCELLED, t)
\* are false for every status t, and can_transition_post(DRAFT, PROCESSING)
\* is true.
C26_PostTransitionTable ==
    (call.fn = "transition" /\ result.done) =>
        /\ call.current \in {"posted", "cancelled"} => result.value = FALSE
        /\ (call.current = "draft" /\ call.target = "processing") => result.value = TRUE

C26_Witness ==
    /\ call.fn = "transition"
    /\ result.done
    /\ call.current = "cancelled"
    /\ call.target = "processing"
    /\ result.value = FALSE

C28_Pipelines == {"image", "video"}

\* C28 (as stated): a cancel issued after run_generation_pipeline has passed
\* its entry check does not stop the run, and the Post's status when the run
\* returns is the one the run wrote (REVIEW_READY or FAILED), not CANCELLED.
C28_CancelMidRunHasNoEffect ==
    (returned.run # 0 /\ returned.kind \in C28_Pipelines /\ returned.outcome # "noop") =>
        returned.status # "cancelled"

\* C28 (amended): a run that has passed its entry check is not stopped by a
\* cancel: it returns only from the REVIEW stage or from an except handler,
\* and its CAPTION commit writes REVIEW_READY and its except handler writes
\* FAILED over whatever status the row holds, CANCELLED included.  A cancel
\* committed after the run's last status write stays.
C28_CancelMidRunIsOverwritten ==
    [][\A r \in RunIds :
          (/\ runs[r].kind \in C28_Pipelines
           /\ runs[r].pc \in {"enter", "body", "except"}
           /\ runs'[r] # runs[r]) =>
              /\ runs'[r].pc = "done" =>
                    (runs[r].pc = "except" \/ StageOf(r) = "review")
              /\ (runs[r].pc = "body" /\ StageOf(r) = "caption" /\ runs'[r].pc # "except") =>
                    post'.status = "review_ready"
              /\ runs[r].pc = "except" => post'.status = "failed"]_vars

\* The operator cancelled while the run was in a stage, and nothing else was
\* sent; the run went on and returned with the Post REVIEW_READY.
C28_Witness ==
    /\ returned.run # 0
    /\ returned.kind \in C28_Pipelines
    /\ returned.outcome = "ok"
    /\ returned.status = "review_ready"
    /\ post.status = "review_ready"
    /\ session = "idle"
    /\ inputs = 1

\* C29: the publish collaborator is never invoked for a Post whose status is
\* CANCELLED when run_publish starts: a cancelled post is never published.
C29_CancelledPostIsNeverPublished ==
    [][\A r \in RunIds :
          (/\ runs[r].kind = "publish"
           /\ runs[r].entry = "cancelled"
           /\ runs'[r] # runs[r]) =>
              external'.calls = external.calls]_vars

C30_PostRowsSucceeded(jr) ==
    {row \in jr : row.stage = "post" /\ row.status = "succeeded"}

\* C30: a JobRun row of stage POST is marked succeeded only in a step in which
\* the publish collaborator was invoked and returned a result; when run_publish
\* stops because the video or the variant is missing, no POST row is marked
\* succeeded.
C30_PostRowSucceededMeansPublished ==
    [][C30_PostRowsSucceeded(jobRuns') # C30_PostRowsSucceeded(jobRuns) =>
          /\ external'.calls = external.calls + 1
          /\ external'.posts = external.posts + 1]_vars

C31_Generations == {"image", "video", "reelthis", "ad"}

\* C31: whenever a generation run (image pipeline, video pipeline, reel-this
\* conversion, multi-scene ad) leaves the Post FAILED, the stage ledger holds
\* a JobRun row with status failed that was created during that run.
C31_FailedRunHasFailedRow ==
    [][\A r \in RunIds :
          (/\ runs[r].kind \in C31_Generations
           /\ runs[r].pc = "except"
           /\ runs'[r].pc = "done"
           /\ post'.status = "failed") =>
              \E row \in jobRuns' : row.run = r /\ row.status = "failed"]_vars

\* C32: when a generation run (image pipeline, video pipeline, reel-this
\* conversion, multi-scene ad) fails with a typed pipeline error, the Post's
\* error code when the run returns is the code of that error, not null and
\* not a value left by an earlier run.
C32_TypedErrorIsRecorded ==
    [][\A r \in RunIds :
          (/\ runs[r].kind \in C31_Generations
           /\ runs[r].pc = "except"
           /\ IsPipelineError(runs[r].exc)
           /\ runs'[r].pc = "done") =>
              post'.error_code = runs[r].exc]_vars

\* Run r leaves its STYLE scope normally in this step.
C33_StyleSucceeds(r) ==
    /\ runs[r].kind = "image"
    /\ runs[r].pc = "body"
    /\ StageOf(r) = "style"
    /\ runs'[r].pc = "enter"

\* C33: after a STYLE stage of run_generation_pipeline succeeds, with no other
\* run for the same post overlapping it, the Post's PostVariant rows (and
\* their items) are exactly those generated in that run: no row of an earlier
\* run remains.
C33_StyleReplacesVariants ==
    [][\A r \in RunIds :
          (C33_StyleSucceeds(r) /\ Running = {r}) =>
              /\ variants' # {}
              /\ \A v \in variants' : v.run = r]_vars

\* The second run has just left its STYLE scope with no other run in progress;
\* the first run had left rows of its own.
C33_Witness ==
    /\ runs[1].pc = "done"
    /\ JobRow(1, "style", "succeeded", "none", TRUE) \in jobRuns
    /\ runs[2].kind = "image"
    /\ runs[2].pc = "enter"
    /\ StageOf(2) = "caption"
    /\ variants = NewVariants(2, VariationModifiers)

\* C34: there is at most one VideoJob row per variation number of the Post,
\* after any sequence of video generation, reel-this conversion, redo and
\* extension runs, so variation n always refers to the clip of the latest run.
C34_OneVideoJobPerVariation ==
    \A a, b \in videoJobs : a.variation_number = b.variation_number => a = b

\* A rewrite task is put on the queue in this step.
C35_RewriteQueued ==
    \E r \in RunIds : runs[r].pc = "idle" /\ runs'[r].pc = "queued" /\ runs'[r].kind = "rewrite"

\* C35: when the session is in AWAITING_CAPTION_EDIT, the user's next
\* free-text message is dispatched as the instruction of a caption rewrite
\* task for the session's post, and the session moves to REVIEW_READY.
C35_FreeTextIsRewriteInstruction ==
    [][(session = "awaiting_caption_edit" /\ CanDelay /\ HFreeText) =>
          (C35_RewriteQueued /\ session' = "review_ready")]_vars

\* The ad run that has just returned had exactly one scene: it said so and
\* went on (with no scene it returns right after that message).
C36_OneScene ==
    /\ returned.kind = "ad"
    /\ \E i \in DOMAIN returned.msgs : returned.msgs[i] = <<"one_scene", 0>>
    /\ ~(returned.outcome = "failed" /\ Len(returned.msgs) = 2)

\* C36: when multi-scene generation yields exactly one scene,
\* run_multi_scene_ad_pipeline uploads that clip, delivers it for review as a
\* plain reel and leaves the Post REVIEW_READY, not FAILED.
C36_OneSceneIsDeliveredAsReel ==
    C36_OneScene =>
        /\ returned.outcome = "ok"
        /\ returned.status # "failed"

\* C37: after the STYLE stage of run_generation_pipeline, the Post's
\* media_type is carousel exactly when the reference post has more than one
\* image, and single otherwise.
C37_MediaTypeFollowsReference ==
    [][\A r \in RunIds :
          (C33_StyleSucceeds(r) /\ Running = {r}) =>
              post'.media_type =
                  IF runs[r].snap.source_image_urls > 1 THEN "carousel" ELSE "single"]_vars

\* C38: every PostVariant row persisted by the STYLE stage has is_valid true
\* whatever its similarity score, and a score below the threshold never makes
\* the STYLE stage fail: the scope of the run that stored the row succeeded.
C38_LowScoreIsWarningOnly ==
    \A v \in variants :
        /\ v.is_valid = TRUE
        /\ (~v.ssim_ok /\ v.run \in RunIds) =>
              JobRow(v.run, "style", "succeeded", "none", TRUE) \in jobRuns

\* A row with a score below the threshold is stored, marked valid.
C38_Witness ==
    \E v \in variants :
        /\ ~v.ssim_ok
        /\ v.is_valid
        /\ JobRow(v.run, "style", "succeeded", "none", TRUE) \in jobRuns

\* The polls post_reel made that answered FINISHED.
C39_Finished == {i \in 1..result.attempted : call.polls[i] = "FINISHED"}

\* C39: post_reel issues the media_publish request only after the container's
\* status has been observed as FINISHED; if the status does not become
\* FINISHED within the polling limit it raises PublishError without
\* publishing.
C39_ReelPublishedOnlyWhenFinished ==
    (call.fn = "post_reel" /\ result.done) =>
        /\ result.value = "media_publish" => C39_Finished # {}
        /\ (\A i \in DOMAIN call.polls : call.polls[i] # "FINISHED") =>
              (result.raised = "publish_error" /\ result.value # "media_publish")

\* C40: every album buffer that is created is eventually removed from the
\* process-wide map by its finalize (under fair scheduling of the front-end
\* tasks), so no group id stays in the map forever.
C40_BufferIsEventuallyRemoved ==
    \A g \in GroupIds : albumCache[g].live ~> ~albumCache[g].live

\* A buffer of the group was created, its finalize has run, and the group is
\* no longer in the map.
C40_Witness ==
    \E g \in GroupIds :
        /\ buffersCreated[g] > 0
        /\ ~albumCache[g].live
        /\ \E f \in DOMAIN finalizers : finalizers[f].group = g /\ finalizers[f].pc = "done"

====
